---- MODULE Spec2Model ----
(***************************************************************************)
(* Model of freezing.sync.subscribe.ActivityUpdateSubscriber: the loop     *)
(* run_forever (reserve -> decode -> handle_message -> release/delete),    *)
(* the dispatcher handle_message, the beanstalkd tube it consumes and the  *)
(* threading.Event that an external caller sets to request shutdown.       *)
(***************************************************************************)
EXTENDS Integers, Sequences, FiniteSets, TLC

\* ------------------------------------------------------------------ bounds
NJobs == 2          \* jobs in the tube
MaxReserves == 4    \* cap on the number of client.reserve calls of one run

\* --------------------------------------------------------------- constants
ReleaseNoDelay == 20 - 20

\* client.release(job, delay=20)
ReleaseDelay == 20

Jobs == 1..NJobs
NoJob == 0
NoEvent == [operation |-> "none"]
DecodeFailed == [operation |-> "invalid"]

\* AspectType: the operations a decoded ActivityUpdate can carry
AspectType == {"create", "update", "delete"}
\* operation tags seen on the wire: "archive" is not an AspectType and does
\* not load; "absent" is a body that carries no operation at all
WireOperations == AspectType \cup {"archive", "absent"}
ActivityIdOf(j) == 1000 + j

\* the raw job.body of job j carrying operation tag op
BodyOf(j, op) == <<42, ActivityIdOf(j), op>>
Bodies == {BodyOf(j, op) : j \in Jobs, op \in WireOperations}

\* the tube does not order jobs by content and reserve may return any ready
\* job, so only one numbering of each multiset of bodies is explored
OpRank(op) ==
    CASE op = "create" -> 1
      [] op = "update" -> 2
      [] op = "delete" -> 3
      [] op = "archive" -> 4
      [] OTHER -> 5

InitialBodies ==
    {f \in [Jobs -> Bodies] :
        /\ \A j \in Jobs : f[j][2] = ActivityIdOf(j)
        /\ \A i, j \in Jobs : i < j => OpRank(f[i][3]) <= OpRank(f[j][3])}

DecodeLenient(b) ==
    [athlete_id |-> b[1], activity_id |-> b[2], operation |-> b[3]]

\* schema.loads(job.body).data: the decoded ActivityUpdate, or a failure
\* (the exception raised inside the inner try block); run_forever does not
\* look at the result before handing it to handle_message, so a body without
\* operation yields an event whose operation is None
Decode(b) ==
    CASE b[3] \in AspectType ->
            [athlete_id |-> b[1], activity_id |-> b[2], operation |-> b[3]]
      [] b[3] = "absent" ->
            [athlete_id |-> b[1], activity_id |-> b[2], operation |-> "None"]
      [] OTHER -> DecodeFailed

VARIABLES
    pc,             \* position of run_forever
    shutdown_event, \* threading.Event: is_set()
    setters,        \* who has called shutdown_event.set()
    path,           \* how run_forever left the loop
    raised,         \* whether run_forever ended by raising
    queue,          \* tube: job -> "ready" | "reserved" | "delayed" | "deleted"
    delay,          \* job -> delay given at its last release
    body,           \* job -> job.body
    job,            \* the local variable job
    res,            \* what happened during the current reservation
    calls,          \* reconciliation calls made by the current handle_message
    reserveCalls,   \* client.reserve calls made so far
    lastReserve,    \* outcome of the last client.reserve call
    reservedCount,  \* job -> times it was reserved
    lastHandled,    \* job -> event last passed to handle_message
    handledOK,      \* job -> handle_message has returned normally for it
    startedAfterSet,\* jobs returned by reserve after the flag was set
    sinceSet        \* reserve calls and handle_message calls that completed
                    \* after the flag was set

vars == <<pc, shutdown_event, setters, path, raised, queue, delay, body, job,
          res, calls, reserveCalls, lastReserve, reservedCount, lastHandled,
          handledOK, startedAfterSet, sinceSet>>

NoRes == [job |-> NoJob, decoded |-> "none", update |-> NoEvent, hm |-> "none",
          nDelete |-> 0, nRelease |-> 0, relDelay |-> 0, afterSet |-> FALSE]

Init ==
    /\ pc = "check"
    /\ shutdown_event = FALSE
    /\ setters = {}
    /\ path = "running"
    /\ raised = FALSE
    /\ queue = [j \in Jobs |-> "ready"]
    /\ delay = [j \in Jobs |-> 0]
    /\ body \in InitialBodies
    /\ job = NoJob
    /\ res = NoRes
    /\ calls = <<>>
    /\ reserveCalls = 0
    /\ lastReserve = "none"
    /\ reservedCount = [j \in Jobs |-> 0]
    /\ lastHandled = [j \in Jobs |-> NoEvent]
    /\ handledOK = [j \in Jobs |-> FALSE]
    /\ startedAfterSet = 0
    /\ sinceSet = [reserves |-> 0, dispatches |-> 0]

\* ------------------------------------------------------- run_forever exits
InterruptExitSetsFlag ==
    /\ pc' = "done"
    /\ path' = "interrupt"
    /\ raised' = TRUE
    /\ shutdown_event' = TRUE
    /\ setters' = setters \cup {"loop"}

\* except (KeyboardInterrupt, SystemExit): raise
InterruptExit ==
    /\ pc' = "done"
    /\ path' = "interrupt"
    /\ raised' = TRUE
    /\ UNCHANGED <<shutdown_event, setters>>

FatalExitNoSet ==
    /\ pc' = "done"
    /\ path' = "fatal"
    /\ raised' = TRUE
    /\ UNCHANGED <<shutdown_event, setters>>

FatalExitSwallow ==
    /\ pc' = "done"
    /\ path' = "fatal"
    /\ raised' = FALSE
    /\ shutdown_event' = TRUE
    /\ setters' = setters \cup {"loop"}

\* except: log; self.shutdown_event.set(); raise
FatalExit ==
    /\ pc' = "done"
    /\ path' = "fatal"
    /\ raised' = TRUE
    /\ shutdown_event' = TRUE
    /\ setters' = setters \cup {"loop"}

GotoClearsFlag(p) ==
    /\ pc' = p
    /\ shutdown_event' = FALSE
    /\ UNCHANGED <<setters, path, raised>>

\* a step that stays inside the loop
Goto(p) ==
    /\ pc' = p
    /\ UNCHANGED <<shutdown_event, setters, path, raised>>

LoopConditionIgnoreFlag(flag) == TRUE

\* while not self.shutdown_event.is_set()
LoopCondition(flag) == ~flag

\* the while test: enter client.reserve(timeout=30), or fall out of the loop
\* and return
WhileTest ==
    /\ pc = "check"
    /\ IF LoopCondition(shutdown_event)
       THEN /\ reserveCalls < MaxReserves
            /\ reserveCalls' = reserveCalls + 1
            /\ Goto("reserve")
       ELSE /\ pc' = "done"
            /\ path' = "loop-exit"
            /\ raised' = FALSE
            /\ UNCHANGED <<shutdown_event, setters, reserveCalls>>
    /\ UNCHANGED <<queue, delay, body, job, res, calls, lastReserve,
                   reservedCount, lastHandled, handledOK, startedAfterSet,
                   sinceSet>>

histVars == <<reservedCount, lastHandled, handledOK, startedAfterSet>>

\* a client.reserve call completes: counted when the flag is already set
ReserveCompletes ==
    sinceSet' = IF shutdown_event
                THEN [sinceSet EXCEPT !.reserves = @ + 1]
                ELSE sinceSet

\* a handle_message call completes: counted when the flag is already set
DispatchCompletes ==
    sinceSet' = IF shutdown_event
                THEN [sinceSet EXCEPT !.dispatches = @ + 1]
                ELSE sinceSet

\* ---------------------------------------------------------- client.reserve
\* job = self.client.reserve(timeout=30) returns job j
ReserveJob(j) ==
    /\ pc = "reserve"
    /\ queue[j] = "ready"
    /\ queue' = [queue EXCEPT ![j] = "reserved"]
    /\ job' = j
    /\ res' = [NoRes EXCEPT !.job = j, !.afterSet = shutdown_event]
    /\ calls' = <<>>
    /\ lastReserve' = "job"
    /\ reservedCount' = [reservedCount EXCEPT ![j] = @ + 1]
    /\ startedAfterSet' = IF shutdown_event THEN startedAfterSet + 1
                          ELSE startedAfterSet
    /\ ReserveCompletes
    /\ Goto("decode")
    /\ UNCHANGED <<delay, body, reserveCalls, lastHandled, handledOK>>

AfterTimeoutNoRecheck == "reserve"

\* except greenstalk.TimedOutError: ...; continue
AfterTimeout == "check"

\* client.reserve raises greenstalk.TimedOutError: no job became ready
ReserveTimeout ==
    /\ pc = "reserve"
    /\ \A j \in Jobs : queue[j] # "ready"
    /\ lastReserve' = "timeout"
    /\ Goto(AfterTimeout)
    /\ UNCHANGED <<queue, delay, body, job, res, calls, reserveCalls>>
    /\ ReserveCompletes
    /\ UNCHANGED histVars

ReserveErrorRetried ==
    /\ pc = "reserve"
    /\ lastReserve' = "error"
    /\ Goto("check")
    /\ UNCHANGED <<queue, delay, body, job, res, calls, reserveCalls>>
    /\ ReserveCompletes
    /\ UNCHANGED histVars

\* client.reserve raises another error (connection lost, protocol error):
\* neither inner handler matches, the outer bare except takes it
ReserveError ==
    /\ pc = "reserve"
    /\ lastReserve' = "error"
    /\ FatalExit
    /\ UNCHANGED <<queue, delay, body, job, res, calls, reserveCalls>>
    /\ ReserveCompletes
    /\ UNCHANGED histVars

\* KeyboardInterrupt / SystemExit while blocked in client.reserve
ReserveInterrupt ==
    /\ pc = "reserve"
    /\ lastReserve' = "interrupt"
    /\ InterruptExit
    /\ UNCHANGED <<queue, delay, body, job, res, calls, reserveCalls>>
    /\ ReserveCompletes
    /\ UNCHANGED histVars

\* ------------------------------------------------- decode, handle_message
AfterProcessingAlwaysDelete(ok) == "delete"

AfterProcessingAlwaysRelease(ok) == "release"

\* try: ... except: client.release(job, delay=20) else: client.delete(job)
AfterProcessing(ok) == IF ok THEN "delete" ELSE "release"

DispatchStreamsFirst(op) ==
    CASE op = "delete" -> <<"delete_activity">>
      [] op = "update" -> <<"fetch_and_store_actvitiy_detail">>
      [] op = "create" -> <<"fetch_and_store_activity_streams",
                            "fetch_and_store_actvitiy_detail">>
      [] OTHER -> <<>>

DispatchDeleteAlsoRefreshes(op) ==
    CASE op = "delete" -> <<"delete_activity", "fetch_and_store_actvitiy_detail">>
      [] op = "update" -> <<"fetch_and_store_actvitiy_detail">>
      [] op = "create" -> <<"fetch_and_store_actvitiy_detail",
                            "fetch_and_store_activity_streams">>
      [] OTHER -> <<>>

DispatchUpdateRefetchesStreams(op) ==
    CASE op = "delete" -> <<"delete_activity">>
      [] op = "update" -> <<"fetch_and_store_actvitiy_detail",
                            "fetch_and_store_activity_streams">>
      [] op = "create" -> <<"fetch_and_store_actvitiy_detail",
                            "fetch_and_store_activity_streams">>
      [] OTHER -> <<>>

DispatchUnknownDeletes(op) ==
    CASE op = "update" -> <<"fetch_and_store_actvitiy_detail">>
      [] op = "create" -> <<"fetch_and_store_actvitiy_detail",
                            "fetch_and_store_activity_streams">>
      [] OTHER -> <<"delete_activity">>

\* handle_message: the reconciliation calls made for an operation, in order
Dispatch(op) ==
    CASE op = "delete" -> <<"delete_activity">>
      [] op = "update" -> <<"fetch_and_store_actvitiy_detail">>
      [] op = "create" -> <<"fetch_and_store_actvitiy_detail",
                            "fetch_and_store_activity_streams">>
      [] OTHER -> <<>>

DecodeJobDropsPoison ==
    /\ pc = "decode"
    /\ LET u == Decode(body[job]) IN
       IF u = DecodeFailed
       THEN /\ res' = [res EXCEPT !.decoded = "fail"]
            /\ Goto("delete")
            /\ UNCHANGED lastHandled
       ELSE /\ res' = [res EXCEPT !.decoded = "ok", !.update = u, !.hm = "running"]
            /\ lastHandled' = [lastHandled EXCEPT ![job] = u]
            /\ Goto("handle")
    /\ calls' = <<>>
    /\ UNCHANGED <<queue, delay, body, job, reserveCalls, lastReserve,
                   reservedCount, handledOK, startedAfterSet, sinceSet>>

\* update = schema.loads(job.body).data; then self.handle_message(update)
\* is entered, or the decode error lands in the bare except
DecodeJob ==
    /\ pc = "decode"
    /\ LET u == Decode(body[job]) IN
       IF u = DecodeFailed
       THEN /\ res' = [res EXCEPT !.decoded = "fail"]
            /\ Goto(AfterProcessing(FALSE))
            /\ UNCHANGED lastHandled
       ELSE /\ res' = [res EXCEPT !.decoded = "ok", !.update = u, !.hm = "running"]
            /\ lastHandled' = [lastHandled EXCEPT ![job] = u]
            /\ Goto("handle")
    /\ calls' = <<>>
    /\ UNCHANGED <<queue, delay, body, job, reserveCalls, lastReserve,
                   reservedCount, handledOK, startedAfterSet, sinceSet>>

CallOutcomes == {"ok", "error", "interrupt"}

\* one reconciliation call of handle_message(update), with its outcome; an
\* error or an interrupt in the callee leaves handle_message and is caught
\* by the bare except of the inner try
HandleMessage(outcome) ==
    /\ pc = "handle"
    /\ LET plan == Dispatch(res.update.operation) IN
       IF Len(calls) = Len(plan)
       THEN \* no branch of the if/elif chain matches: nothing is called and
            \* handle_message returns
            /\ outcome = "ok"
            /\ res' = [res EXCEPT !.hm = "ok"]
            /\ handledOK' = [handledOK EXCEPT ![job] = TRUE]
            /\ DispatchCompletes
            /\ Goto(AfterProcessing(TRUE))
            /\ UNCHANGED calls
       ELSE LET call == [action |-> plan[Len(calls) + 1],
                         athlete_id |-> res.update.athlete_id,
                         activity_id |-> res.update.activity_id,
                         outcome |-> outcome]
            IN  /\ calls' = Append(calls, call)
                /\ IF outcome = "ok"
                   THEN IF Len(calls) + 1 = Len(plan)
                        THEN /\ res' = [res EXCEPT !.hm = "ok"]
                             /\ handledOK' = [handledOK EXCEPT ![job] = TRUE]
                             /\ DispatchCompletes
                             /\ Goto(AfterProcessing(TRUE))
                        ELSE /\ Goto("handle")
                             /\ UNCHANGED <<res, handledOK, sinceSet>>
                   ELSE /\ res' = [res EXCEPT !.hm = outcome]
                        /\ DispatchCompletes
                        /\ Goto(AfterProcessing(FALSE))
                        /\ UNCHANGED handledOK
    /\ UNCHANGED <<queue, delay, body, job, reserveCalls, lastReserve,
                   reservedCount, lastHandled, startedAfterSet>>

\* ----------------------------------------------------------- resolution
ReleaseJobThenDelete(outcome) ==
    /\ pc = "release"
    /\ res' = [res EXCEPT !.nRelease = @ + 1, !.relDelay = ReleaseDelay]
    /\ CASE outcome = "ok" ->
              /\ queue' = [queue EXCEPT ![job] = "delayed"]
              /\ delay' = [delay EXCEPT ![job] = ReleaseDelay]
              /\ Goto("delete")
         [] outcome = "error" ->
              /\ FatalExit
              /\ UNCHANGED <<queue, delay>>
         [] outcome = "interrupt" ->
              /\ InterruptExit
              /\ UNCHANGED <<queue, delay>>
    /\ UNCHANGED <<body, job, calls, reserveCalls, lastReserve>>
    /\ UNCHANGED histVars
    /\ UNCHANGED sinceSet

\* self.client.release(job, delay=20)
ReleaseJob(outcome) ==
    /\ pc = "release"
    /\ res' = [res EXCEPT !.nRelease = @ + 1, !.relDelay = ReleaseDelay]
    /\ CASE outcome = "ok" ->
              /\ queue' = [queue EXCEPT ![job] = "delayed"]
              /\ delay' = [delay EXCEPT ![job] = ReleaseDelay]
              /\ Goto("check")
         [] outcome = "error" ->
              /\ FatalExit
              /\ UNCHANGED <<queue, delay>>
         [] outcome = "interrupt" ->
              /\ InterruptExit
              /\ UNCHANGED <<queue, delay>>
    /\ UNCHANGED <<body, job, calls, reserveCalls, lastReserve>>
    /\ UNCHANGED histVars
    /\ UNCHANGED sinceSet

DeleteJobSkipsTest(outcome) ==
    /\ pc = "delete"
    /\ res' = [res EXCEPT !.nDelete = @ + 1]
    /\ CASE outcome = "ok" ->
              /\ queue' = [queue EXCEPT ![job] = "deleted"]
              /\ Goto("reserve")
         [] outcome = "error" ->
              /\ FatalExit
              /\ UNCHANGED queue
         [] outcome = "interrupt" ->
              /\ InterruptExit
              /\ UNCHANGED queue
    /\ UNCHANGED <<delay, body, job, calls, reserveCalls, lastReserve>>
    /\ UNCHANGED histVars
    /\ UNCHANGED sinceSet

DeleteJobInsideTry(outcome) ==
    /\ pc = "delete"
    /\ res' = [res EXCEPT !.nDelete = @ + 1]
    /\ CASE outcome = "ok" ->
              /\ queue' = [queue EXCEPT ![job] = "deleted"]
              /\ Goto("check")
         [] outcome = "error" ->
              /\ Goto("release")
              /\ UNCHANGED queue
         [] outcome = "interrupt" ->
              /\ InterruptExit
              /\ UNCHANGED queue
    /\ UNCHANGED <<delay, body, job, calls, reserveCalls, lastReserve>>
    /\ UNCHANGED histVars
    /\ UNCHANGED sinceSet

\* self.client.delete(job)
DeleteJob(outcome) ==
    /\ pc = "delete"
    /\ res' = [res EXCEPT !.nDelete = @ + 1]
    /\ CASE outcome = "ok" ->
              /\ queue' = [queue EXCEPT ![job] = "deleted"]
              /\ Goto("check")
         [] outcome = "error" ->
              /\ FatalExit
              /\ UNCHANGED queue
         [] outcome = "interrupt" ->
              /\ InterruptExit
              /\ UNCHANGED queue
    /\ UNCHANGED <<delay, body, job, calls, reserveCalls, lastReserve>>
    /\ UNCHANGED histVars
    /\ UNCHANGED sinceSet

\* ---------------------------------------------------------- environment
\* an external caller (signal handler, other thread) requests shutdown
\* while run_forever is running
SetShutdown ==
    /\ pc # "done"
    /\ ~shutdown_event
    /\ shutdown_event' = TRUE
    /\ setters' = setters \cup {"external"}
    /\ UNCHANGED <<pc, path, raised, queue, delay, body, job, res, calls,
                   reserveCalls, lastReserve>>
    /\ UNCHANGED histVars
    /\ UNCHANGED sinceSet

\* beanstalkd: the delay of a released job elapses and it is ready again
Redeliver(j) ==
    /\ queue[j] = "delayed"
    /\ queue' = [queue EXCEPT ![j] = "ready"]
    /\ delay' = [delay EXCEPT ![j] = 0]
    /\ UNCHANGED <<pc, shutdown_event, setters, path, raised, body, job, res,
                   calls, reserveCalls, lastReserve>>
    /\ UNCHANGED histVars
    /\ UNCHANGED sinceSet

\* beanstalkd: the worker is gone and the lease of a job it still held
\* expires, the job is ready for another consumer
LeaseExpire(j) ==
    /\ pc = "done"
    /\ queue[j] = "reserved"
    /\ queue' = [queue EXCEPT ![j] = "ready"]
    /\ UNCHANGED <<pc, shutdown_event, setters, path, raised, delay, body, job,
                   res, calls, reserveCalls, lastReserve>>
    /\ UNCHANGED histVars
    /\ UNCHANGED sinceSet

Next ==
    \/ WhileTest
    \/ \E j \in Jobs : ReserveJob(j)
    \/ ReserveTimeout
    \/ ReserveError
    \/ ReserveInterrupt
    \/ DecodeJob
    \/ \E o \in CallOutcomes : HandleMessage(o)
    \/ \E o \in CallOutcomes : ReleaseJob(o)
    \/ \E o \in CallOutcomes : DeleteJob(o)
    \/ SetShutdown
    \/ \E j \in Jobs : Redeliver(j)
    \/ \E j \in Jobs : LeaseExpire(j)

Spec == Init /\ [][Next]_vars

TypeOK ==
    /\ pc \in {"check", "reserve", "decode", "handle", "release", "delete", "done"}
    /\ shutdown_event \in BOOLEAN
    /\ setters \subseteq {"external", "loop"}
    /\ path \in {"running", "loop-exit", "fatal", "interrupt"}
    /\ queue \in [Jobs -> {"ready", "reserved", "delayed", "deleted"}]
    /\ job \in Jobs \cup {NoJob}
    /\ reserveCalls \in 0..MaxReserves

\* ------------------------------------------------------------ properties
\* the reservation recorded in res has run to its end: the loop is back at
\* the while test, in a later reserve call, or has left run_forever
Finished == res.job # NoJob /\ pc \in {"check", "reserve", "done"}

\* job j carries a body that schema.loads does not decode
Undecodable(j) == body[j][3] \notin AspectType \cup {"absent"}

C2_FailedIsReleased ==
    /\ (res.hm \in {"error", "interrupt"} =>
          /\ res.nDelete = 0
          /\ res.nRelease <= 1
          /\ pc # "delete"
          /\ queue[res.job] # "deleted"
          /\ (Finished => res.nRelease = 1 /\ res.relDelay = 20))
    /\ \A j \in Jobs : queue[j] = "delayed" => delay[j] = 20

C2_RedeliveredIsHandledAgain ==
    (pc = "decode" /\ pc' # "decode" /\ lastHandled[job] # NoEvent)
        => /\ pc' = "handle"
           /\ res'.update = lastHandled[job]
           /\ calls' = <<>>

C2_ReleaseAndRetry ==
    [] C2_FailedIsReleased /\ [][C2_RedeliveredIsHandledAgain]_vars

C2_Witness ==
    /\ pc = "handle"
    /\ calls = <<>>
    /\ reservedCount[job] >= 2
    /\ res.update = lastHandled[job]

\* C3: a reserved job that decodes and whose handle_message call returns
\* without error has client.delete called on it exactly once and
\* client.release never.
C3_HandledIsDeletedOnce ==
    res.hm = "ok" =>
        /\ res.nRelease = 0
        /\ pc # "release"
        /\ res.nDelete <= 1
        /\ (pc = "delete" => res.nDelete = 0)
        /\ (Finished => res.nDelete = 1)

C3_Witness ==
    /\ Finished
    /\ res.hm = "ok"
    /\ res.nDelete = 1
    /\ queue[res.job] = "deleted"

\* C4: a job with a valid body leaves the tube only by the client.delete that
\* follows a successful handle_message of the same reservation; until then it
\* is ready, or delayed and redelivered, or leased and given back when the
\* lease expires.
C4_DeletedOnlyAfterSuccess ==
    \A j \in Jobs : (~Undecodable(j) /\ queue[j] # "deleted" /\ queue'[j] = "deleted")
        => /\ pc = "delete"
           /\ res.job = j
           /\ res.hm = "ok"
           /\ res.decoded = "ok"

C4_StillDeliverable ==
    \A j \in Jobs : ~Undecodable(j) =>
        /\ (queue[j] = "deleted" => handledOK[j])
        /\ (queue[j] = "delayed" => ENABLED Redeliver(j))
        /\ (queue[j] = "reserved" /\ pc = "done" => ENABLED LeaseExpire(j))
        /\ (queue[j] = "reserved" /\ pc # "done" => res.job = j /\ ~Finished)

C4_NoWorkLost ==
    [] C4_StillDeliverable /\ [][C4_DeletedOnlyAfterSuccess]_vars

C4_Witness ==
    /\ pc = "done"
    /\ \E j \in Jobs :
          /\ ~Undecodable(j)
          /\ queue[j] = "ready"
          /\ reservedCount[j] >= 2
          /\ ~handledOK[j]

\* C5 as stated: once the flag is set, no job that reserve had not yet
\* returned is decoded or dispatched, and a job in flight has client.delete
\* or client.release called on it before the loop stops.
C5_Original ==
    /\ (pc \in {"decode", "handle", "release", "delete"} => ~res.afterSet)
    /\ (pc = "done" /\ res.job # NoJob => res.nDelete + res.nRelease >= 1)

\* C5 amended: once the flag is set the loop enters no client.reserve call
\* after a loop test that saw the flag, so at most one job not yet in flight
\* is still decoded and dispatched (the one returned by the reserve call
\* whose loop test ran before the flag was set); every job in flight has
\* client.delete or client.release called on it exactly once before the loop
\* stops, and when run_forever returns normally no job is left reserved.
C5_InFlightIsResolved ==
    /\ startedAfterSet <= 1
    /\ (pc = "done" /\ res.job # NoJob => res.nDelete + res.nRelease = 1)
    /\ (pc = "done" /\ path = "loop-exit" => \A j \in Jobs : queue[j] # "reserved")

C5_NoReserveOnceFlagSeen ==
    /\ (pc = "check" /\ pc' = "reserve" => ~shutdown_event)
    /\ (pc = "check" /\ pc' # "check" /\ shutdown_event
          => /\ pc' = "done"
             /\ path' = "loop-exit"
             /\ reserveCalls' = reserveCalls)
    /\ (pc = "done" => pc' = "done" /\ reserveCalls' = reserveCalls /\ res' = res)

C5_Amended ==
    [] C5_InFlightIsResolved /\ [][C5_NoReserveOnceFlagSeen]_vars

C5_Witness ==
    /\ pc = "done"
    /\ path = "loop-exit"
    /\ startedAfterSet = 1
    /\ res.afterSet
    /\ res.nDelete + res.nRelease = 1

\* C6: a reserve timeout touches no job and leads back to the loop test;
\* with the flag unset the test enters client.reserve again, with the flag
\* set it ends run_forever normally and no reserve call follows.
C6_TimeoutStep ==
    /\ pc = "reserve"
    /\ lastReserve' = "timeout"
    /\ (pc' # "reserve" \/ lastReserve # "timeout")

C6_Step ==
    /\ (C6_TimeoutStep
          => /\ pc' = "check"
             /\ path' = "running"
             /\ UNCHANGED <<queue, delay, job, res, calls, reserveCalls,
                            shutdown_event, reservedCount>>)
    /\ (pc = "check" /\ lastReserve = "timeout" /\ pc' # "check"
          => IF shutdown_event
             THEN /\ pc' = "done"
                  /\ path' = "loop-exit"
                  /\ ~raised'
                  /\ reserveCalls' = reserveCalls
             ELSE /\ pc' = "reserve"
                  /\ reserveCalls' = reserveCalls + 1)
    /\ (pc = "done" => pc' = "done" /\ reserveCalls' = reserveCalls)

C6_TimeoutRechecksFlag == [][C6_Step]_vars

C6_Witness ==
    /\ pc = "done"
    /\ path = "loop-exit"
    /\ lastReserve = "timeout"
    /\ reserveCalls >= NJobs + 2
    /\ \A j \in Jobs : reservedCount[j] = 1

\* the record of one reconciliation call for the event handled now
CallOf(a, o) ==
    [action |-> a, athlete_id |-> res.update.athlete_id,
     activity_id |-> res.update.activity_id, outcome |-> o]

Detail(o) == CallOf("fetch_and_store_actvitiy_detail", o)
Streams(o) == CallOf("fetch_and_store_activity_streams", o)
Delete(o) == CallOf("delete_activity", o)

\* the event handled now is the one the body of the reserved job carries
EventOfBody ==
    /\ res.update.athlete_id = body[res.job][1]
    /\ res.update.activity_id = body[res.job][2]
    /\ res.update.operation = body[res.job][3]

\* C7: for a create event handle_message calls detail-refresh first and
\* stream-fetch second, both with the event's ids; when detail-refresh fails
\* stream-fetch is not called and the failure reaches the caller.
C7_CreateDetailThenStreams ==
    res.update.operation = "create" =>
        /\ EventOfBody
        /\ \E o1, o2 \in CallOutcomes :
              calls \in {<<>>, <<Detail(o1)>>, <<Detail("ok"), Streams(o2)>>}
        /\ (res.hm = "ok" => calls = <<Detail("ok"), Streams("ok")>>)
        /\ (Len(calls) >= 1 /\ calls[1].outcome # "ok"
              => /\ Len(calls) = 1
                 /\ res.hm = calls[1].outcome
                 /\ pc # "handle"
                 /\ res.nDelete = 0)
        /\ (res.hm = "running" => pc = "handle")

C7_Witness ==
    /\ res.update.operation = "create"
    /\ res.hm = "ok"
    /\ Len(calls) = 2
    /\ calls[1].action = "fetch_and_store_actvitiy_detail"
    /\ calls[2].action = "fetch_and_store_activity_streams"

\* C8: for a delete event handle_message calls delete_activity with the
\* event's ids and nothing else.
C8_DeleteOnlyDeletes ==
    res.update.operation = "delete" =>
        /\ EventOfBody
        /\ \E o \in CallOutcomes : calls \in {<<>>, <<Delete(o)>>}
        /\ (res.hm # "running" => Len(calls) = 1 /\ calls[1].outcome = res.hm)
        /\ (res.hm = "running" => pc = "handle" /\ calls = <<>>)

C8_Witness ==
    /\ res.update.operation = "delete"
    /\ res.hm = "ok"
    /\ calls = <<Delete("ok")>>

\* C9: for an update event handle_message calls detail-refresh with the
\* event's ids and nothing else.
C9_UpdateOnlyRefreshesDetail ==
    res.update.operation = "update" =>
        /\ EventOfBody
        /\ \E o \in CallOutcomes : calls \in {<<>>, <<Detail(o)>>}
        /\ (res.hm # "running" => Len(calls) = 1 /\ calls[1].outcome = res.hm)
        /\ (res.hm = "running" => pc = "handle" /\ calls = <<>>)

C9_Witness ==
    /\ res.update.operation = "update"
    /\ res.hm = "ok"
    /\ calls = <<Detail("ok")>>

\* C10: run_forever returns normally when it leaves the loop on seeing the
\* flag an external caller set, with no job left reserved; it ends by
\* raising when it leaves through the fatal handler.
C10_ExitStatus ==
    /\ (pc = "done" <=> path # "running")
    /\ (path = "running" => ~raised)
    /\ (path = "loop-exit"
          => /\ ~raised
             /\ shutdown_event
             /\ "external" \in setters
             /\ "loop" \notin setters
             /\ \A j \in Jobs : queue[j] # "reserved")
    /\ (path = "fatal" => raised /\ shutdown_event /\ "loop" \in setters)

C10_Witness ==
    /\ pc = "done"
    /\ path = "fatal"
    /\ raised
    /\ res.job # NoJob
    /\ queue[res.job] = "reserved"
C11_ErrorStep ==
    pc = "reserve" /\ lastReserve' = "error" /\ pc' # "reserve"

C11_FatalOnReserveError ==
    /\ (C11_ErrorStep
          => /\ pc' = "done"
             /\ path' = "fatal"
             /\ raised'
             /\ shutdown_event'
             /\ "loop" \in setters'
             /\ UNCHANGED <<queue, job, res, calls, reserveCalls>>)
    /\ (lastReserve = "error" => UNCHANGED <<pc, reserveCalls, lastReserve>>)

C12_InterruptIsReraised ==
    (res.hm = "interrupt" /\ Finished /\ path # "fatal")
        => /\ res.nDelete + res.nRelease = 1
           /\ pc = "done"
           /\ path = "interrupt"
           /\ raised
\* C13 as stated: whenever run_forever exits because of KeyboardInterrupt /
\* SystemExit, also one raised while client.reserve blocks with no job in
\* flight, shutdown_event is set at that moment.
C13_Original ==
    path = "interrupt" => shutdown_event

C13_InterruptExitStep ==
    (pc # "done" /\ pc' = "done" /\ path' = "interrupt")
        => /\ raised'
           /\ shutdown_event' = shutdown_event
           /\ setters' = setters
           /\ pc \in {"reserve", "release", "delete"}

\* C13 amended: whenever run_forever exits because of KeyboardInterrupt /
\* SystemExit it re-raises the interrupt and leaves shutdown_event as it was:
\* the flag is set at that moment only if an external caller had set it
\* before.
C13_Amended ==
    [](path = "interrupt"
         => /\ raised
            /\ "loop" \notin setters
            /\ (shutdown_event <=> "external" \in setters))
    /\ [][C13_InterruptExitStep]_vars

C13_Witness ==
    /\ pc = "done"
    /\ path = "interrupt"
    /\ lastReserve = "interrupt"
    /\ ~shutdown_event
    /\ \A j \in Jobs : queue[j] # "reserved"
\* C14: an error that is neither a reserve timeout, nor a failure while
\* decoding or dispatching a job, nor an interrupt (here: client.reserve,
\* client.release or client.delete raising an ordinary error) is fatal: the
\* flag is set, run_forever exits raising, and no client.reserve,
\* client.delete or client.release call follows.
C14_FatalStep ==
    /\ (pc # "done" /\ pc' = "done" /\ path' = "fatal"
          => /\ shutdown_event'
             /\ "loop" \in setters'
             /\ raised'
             /\ \/ pc = "reserve" /\ lastReserve' = "error"
                \/ pc \in {"release", "delete"})
    /\ (pc = "done"
          => /\ UNCHANGED <<pc, path, raised, reserveCalls, res, calls,
                            shutdown_event>>
             /\ \A j \in Jobs : queue'[j] # queue[j] => queue'[j] = "ready")

C14_UnclassifiedErrorIsFatal ==
    [](path = "fatal" => pc = "done" /\ raised /\ shutdown_event)
    /\ [][C14_FatalStep]_vars

C14_Witness ==
    /\ pc = "done"
    /\ path = "fatal"
    /\ "external" \notin setters
    /\ shutdown_event
    /\ res.nRelease = 1
    /\ queue[res.job] = "reserved"
\* C15 as stated: run_forever only reads the flag: every change of
\* shutdown_event from unset to set is made by an external caller, and the
\* flag is never cleared.
C15_OnlyExternalSets ==
    /\ (shutdown_event => shutdown_event')
    /\ (~shutdown_event /\ shutdown_event'
          => pc' = pc /\ setters' = setters \cup {"external"})
    /\ "loop" \notin setters'

C15_Original == [][C15_OnlyExternalSets]_vars

C15_FlagStep ==
    /\ (shutdown_event => shutdown_event')
    /\ (~shutdown_event /\ shutdown_event'
          => \/ pc' = pc /\ setters' = setters \cup {"external"}
             \/ /\ pc # "done"
                /\ pc' = "done"
                /\ path' = "fatal"
                /\ setters' = setters \cup {"loop"})

\* C15 amended: run_forever never clears the flag and sets it itself only in
\* its fatal-error handler, right before it exits; everywhere else it only
\* reads the flag, and any other change from unset to set is made by an
\* external caller.
C15_Amended ==
    []("loop" \in setters => pc = "done" /\ path = "fatal" /\ shutdown_event)
    /\ [][C15_FlagStep]_vars

C15_Witness ==
    /\ setters = {"loop"}
    /\ shutdown_event
    /\ lastReserve = "job"
    /\ res.nDelete = 1
    /\ res.hm = "ok"
\* C16: the worker holds at most one reserved job, client.reserve is never
\* called while a reserved job is unresolved, and every reservation gets
\* exactly one resolution call, client.delete or client.release, never both
\* and never the same one twice.
C16_Held == {j \in Jobs : queue[j] = "reserved"}

C16_AtMostOneHeld ==
    /\ Cardinality(C16_Held) <= 1
    /\ (pc \in {"check", "reserve"} => C16_Held = {})
    /\ (pc \in {"decode", "handle", "release", "delete"}
          => /\ C16_Held = {job}
             /\ res.job = job
             /\ res.nDelete = 0
             /\ res.nRelease = 0)
    /\ res.nDelete + res.nRelease <= 1
    /\ (Finished => res.nDelete + res.nRelease = 1)

C16_ReserveOnlyWhenFree ==
    /\ (pc # "reserve" /\ pc' = "reserve" => C16_Held = {} /\ pc = "check")
    /\ (reserveCalls' # reserveCalls => C16_Held = {})

C16_OneJobAtATime ==
    [] C16_AtMostOneHeld /\ [][C16_ReserveOnlyWhenFree]_vars

C16_Witness ==
    /\ pc = "decode"
    /\ reserveCalls >= 3
    /\ \A j \in Jobs : reservedCount[j] >= 1
    /\ \E j \in Jobs : queue[j] = "delayed"
C17_PoisonLeavesLeaseByRelease ==
    \A j \in Jobs :
        (Undecodable(j) /\ queue[j] = "reserved" /\ queue'[j] # "reserved")
            => \/ pc = "release" /\ queue'[j] = "delayed" /\ pc' = "check"
               \/ pc = "done" /\ queue'[j] = "ready"

C17_PoisonStaysReservable ==
    \A j \in Jobs : Undecodable(j) =>
        /\ queue[j] \in {"ready", "reserved", "delayed"}
        /\ (queue[j] = "delayed" => ENABLED Redeliver(j))
        /\ (queue[j] = "ready" /\ pc = "reserve" => ENABLED ReserveJob(j))

C18_AtMostOneMore ==
    /\ sinceSet.reserves <= 1
    /\ sinceSet.dispatches <= 1
    /\ (sinceSet.reserves + sinceSet.dispatches >= 1 => "external" \in setters)

C18_Step ==
    /\ (shutdown_event /\ pc = "check" /\ pc' # "check"
          => pc' = "done" /\ path' = "loop-exit" /\ sinceSet' = sinceSet)
    /\ ("external" \notin setters /\ "external" \in setters'
          => UNCHANGED <<pc, job, res, calls, queue, path, sinceSet>>)
    /\ (pc = "done" => sinceSet' = sinceSet)

C18_ShutdownIsBounded ==
    [] C18_AtMostOneMore /\ [][C18_Step]_vars

C18_Witness ==
    /\ pc = "done"
    /\ path = "loop-exit"
    /\ sinceSet.reserves = 1
    /\ sinceSet.dispatches = 1
\* C19: when client.release or client.delete itself raises an ordinary error
\* the call is not retried: run_forever takes the fatal path (flag set, error
\* raised) and exits with the job still leased, neither deleted nor released.
C19_ResolutionStep ==
    /\ (pc = "delete" => pc' \in {"delete", "check", "done"})
    /\ (pc = "release" => pc' \in {"release", "check", "done"})
    /\ (pc \in {"release", "delete"} /\ pc' = "done" /\ path' = "fatal"
          => /\ shutdown_event'
             /\ "loop" \in setters'
             /\ raised'
             /\ queue' = queue
             /\ queue[job] = "reserved"
             /\ res'.nDelete + res'.nRelease = 1)

C19_JobLeftLeased ==
    (path = "fatal" /\ lastReserve = "job")
        => /\ res.nDelete + res.nRelease = 1
           /\ (res.nDelete = 1 <=> res.hm = "ok")
           /\ queue[res.job] \in {"reserved", "ready"}
           /\ (queue[res.job] = "reserved" => ENABLED LeaseExpire(res.job))

C19_ResolutionFailureIsFatal ==
    [] C19_JobLeftLeased /\ [][C19_ResolutionStep]_vars

C19_Witness ==
    /\ pc = "done"
    /\ path = "fatal"
    /\ raised
    /\ res.nDelete = 1
    /\ queue[res.job] = "reserved"
\* C20: an event whose operation is none of delete, update, create makes
\* handle_message call nothing and return without error, so run_forever
\* acknowledges the job (client.delete) and does not release it.
C20_UnknownOperationIsAcknowledged ==
    (res.decoded = "ok" /\ res.update.operation \notin AspectType)
        => /\ calls = <<>>
           /\ res.hm \in {"running", "ok"}
           /\ (res.hm = "running" <=> pc = "handle")
           /\ pc # "release"
           /\ res.nRelease = 0
           /\ (Finished => res.nDelete = 1)

C20_Witness ==
    /\ Finished
    /\ res.decoded = "ok"
    /\ res.update.operation = "None"
    /\ res.hm = "ok"
    /\ calls = <<>>
    /\ queue[res.job] = "deleted"
====
